---- MODULE Spec2Model ----
(***************************************************************************)
(* city_weather: the weather client (src/src/weather_client.rs) and the    *)
(* command-line driver around it (src/src/main.rs, src/src/app.rs).        *)
(*                                                                         *)
(* A String is modelled as the sequence of its bytes, so that Ord::cmp on  *)
(* String is the lexicographic order on sequences.  An Option<String> is   *)
(* << >> for None and <<s>> for Some(s).  A Result is a record with the    *)
(* fields ok, val and err; an anyhow::Error is the chain of its messages,  *)
(* outermost context first.                                                *)
(***************************************************************************)
EXTENDS Integers, Sequences, FiniteSets, TLC

(* ------------------------------ bounds -------------------------------- *)

\* The longest list of locations the geocoder answers with in the model.
MaxLocs == 3

(* ----------------------------- strings -------------------------------- *)

GB == <<71, 66>>
US == <<85, 83>>
IL == <<73, 76>>
MO == <<77, 79>>

None == << >>
Some(s) == <<s>>

RECURSIVE StrLess(_, _)
\* <String as Ord>::cmp(a, b) == Less: lexicographic on the bytes.
StrLess(a, b) ==
    IF b = << >> THEN FALSE
    ELSE IF a = << >> THEN TRUE
    ELSE IF a[1] # b[1] THEN a[1] < b[1]
    ELSE StrLess(Tail(a), Tail(b))

\* <Option<String> as Ord>::cmp(a, b) == Less: None is below every Some.
OptLess(a, b) ==
    IF a = None THEN b # None
    ELSE b # None /\ StrLess(a[1], b[1])

(* ------------------------------ results -------------------------------- *)

Ok(v) == [ok |-> TRUE, val |-> v, err |-> << >>]
Err(e) == [ok |-> FALSE, val |-> << >>, err |-> e]

\* The messages of the errors the client builds.
TransportMsg == "reqwest: error sending request"
InvalidKeyMsg == "Invalid API key for weather service. Please check the configuration."
ParseMsg == "Failed to parse JSON response."
DecodeMsg == "reqwest: error decoding response body"
ConnectMsg == "Failed to connect to the weather service."

\* StatusCode::UNAUTHORIZED
UNAUTHORIZED == 401

(* --------------------------- upstream answers -------------------------- *)

\* The (country, state) pairs the modelled geocoder answers with.
Regions ==
    { <<GB, None>>, <<US, None>>, <<US, Some(IL)>>, <<US, Some(MO)>> }

\* The i-th entry of a geocoder answer: its coordinates and its name are its
\* own (lat = lon = name = i), its country and state are the geocoder's choice.
CityLocation(i, r) ==
    [lat |-> i, lon |-> i, country |-> r[1], state |-> r[2], name |-> i]

RECURSIVE LocationLists(_)
\* Every list of exactly n locations.
LocationLists(n) ==
    IF n = 0 THEN { << >> }
    ELSE { Append(l, CityLocation(n, r)) : l \in LocationLists(n - 1), r \in Regions }

AllLocationLists == UNION { LocationLists(n) : n \in 0..MaxLocs }

\* A body of an HTTP answer: shape is the JSON shape it deserializes as.
LocationsBody(l) == [shape |-> "locations", locations |-> l, weather |-> << >>, temp |-> 0]
WeatherBody(w, t) == [shape |-> "weather", locations |-> << >>, weather |-> w, temp |-> t]
OtherBody == [shape |-> "other", locations |-> << >>, weather |-> << >>, temp |-> 0]

\* An answer of the upstream: the transport failed, or a status and a body.
TransportError == [kind |-> "transport", status |-> 0, body |-> OtherBody]
Http(status, body) == [kind |-> "http", status |-> status, body |-> body]
\* The answer of a request that is still in flight.
Pending == [kind |-> "pending", status |-> 0, body |-> OtherBody]

Statuses == {200, UNAUTHORIZED, 500}

\* What the geocoding endpoint may answer.  Every list comes with 200; the
\* other statuses come with an unparseable body or a short list.
GeoResponses ==
    {TransportError}
    \cup { Http(200, LocationsBody(l)) : l \in AllLocationLists }
    \cup { Http(s, OtherBody) : s \in Statuses }
    \cup { Http(s, LocationsBody(l)) :
             s \in Statuses \ {200}, l \in LocationLists(0) \cup LocationLists(1) }

\* What the weather endpoint may answer.
WeatherResponses ==
    {TransportError}
    \cup { Http(s, OtherBody) : s \in Statuses }
    \cup { Http(s, WeatherBody(<<"clear sky">>, 20)) : s \in Statuses }
    \cup { Http(200, WeatherBody(<< >>, 20)) }

Cities == {"London", "Springfield"}

(* ------------------------- the client's functions ---------------------- *)

\* get_response without its check of the status: a 401 is parsed like any
\* other answer.
GetResponseNoStatus(resp, shape) ==
    IF resp.kind = "transport" THEN Err(<<TransportMsg>>)
    ELSE IF resp.body.shape # shape THEN Err(<<ParseMsg, DecodeMsg>>)
    ELSE Ok(resp.body)

\* Client<Connected>::get_response::<T>: the transport error of send(), the
\* bail on 401, the error of json::<T>() under its context, or the value.
GetResponse(resp, shape) ==
    IF resp.kind = "transport" THEN Err(<<TransportMsg>>)
    ELSE IF resp.status = UNAUTHORIZED THEN Err(<<InvalidKeyMsg>>)
    ELSE IF resp.body.shape # shape THEN Err(<<ParseMsg, DecodeMsg>>)
    ELSE Ok(resp.body)

\* get_city_locations reporting a city that is not found as an error.
GetCityLocationsNotFound(resp) ==
    LET r == GetResponse(resp, "locations")
    IN  IF ~r.ok THEN r
        ELSE IF r.val.locations = << >> THEN Err(<<"city not found">>)
        ELSE Ok(r.val.locations)

\* get_city_locations answering a failed request with no locations.
GetCityLocationsOrEmpty(resp) ==
    LET r == GetResponse(resp, "locations")
    IN  IF r.ok THEN Ok(r.val.locations) ELSE Ok(<< >>)

\* Client<Connected>::get_city_locations
GetCityLocations(resp) ==
    LET r == GetResponse(resp, "locations")
    IN  IF r.ok THEN Ok(r.val.locations) ELSE r

\* Client<Connected>::get_city_weather: None, or Some((description, temp)).
GetCityWeather(resp) ==
    LET r == GetResponse(resp, "weather")
    IN  IF ~r.ok THEN None
        ELSE IF r.val.weather = << >> THEN None
        ELSE Some(<<r.val.weather[1], r.val.temp>>)

\* The comparator of the first sort, |a, b| Ord::cmp(&b.country, &a.country),
\* answers Less: a goes before b.
CountryBefore(a, b) == StrLess(b.country, a.country)

\* The comparator of the second sort, |a, b| Ord::cmp(&b.state, &a.state).
StateBefore(a, b) == OptLess(b.state, a.state)

\* The comparator of the sort by key, "country" the first and "state" the
\* second.
Before(key, a, b) ==
    IF key = "country" THEN CountryBefore(a, b) ELSE StateBefore(a, b)

RECURSIVE InsertBy(_, _, _)
\* One step of a stable sort: x, the latest element, goes behind every
\* element it is not strictly before.
InsertBy(key, s, x) ==
    IF s = << >> THEN <<x>>
    ELSE IF Before(key, x, s[Len(s)])
         THEN Append(InsertBy(key, SubSeq(s, 1, Len(s) - 1), x), s[Len(s)])
         ELSE Append(s, x)

RECURSIVE SortedBy(_, _)
\* Itertools::sorted_by: Vec::sort_by, a stable sort.
SortedBy(key, s) ==
    IF s = << >> THEN << >>
    ELSE InsertBy(key, SortedBy(key, SubSeq(s, 1, Len(s) - 1)), s[Len(s)])

\* The first sort left out.
SortedByCountrySkipped(s) == s

SortedByCountry(s) == SortedBy("country", s)

\* The second sort left out.
SortedByStateSkipped(s) == s

SortedByState(s) == SortedBy("state", s)

\* The predicate of dedup_by.
SameRegion(x, y) == x.country = y.country /\ x.state = y.state

RECURSIVE DedupByKeepLast(_)
\* A dedup that keeps the last element of a run.
DedupByKeepLast(s) ==
    IF Len(s) <= 1 THEN s
    ELSE IF SameRegion(s[1], s[2])
         THEN DedupByKeepLast(Tail(s))
         ELSE <<s[1]>> \o DedupByKeepLast(Tail(s))

RECURSIVE DedupBy(_)
\* Itertools::dedup_by: of a run of adjacent elements the predicate holds
\* of, the first is kept and the others are dropped.
DedupBy(s) ==
    IF Len(s) <= 1 THEN s
    ELSE IF SameRegion(s[1], s[2])
         THEN DedupBy(<<s[1]>> \o SubSeq(s, 3, Len(s)))
         ELSE <<s[1]>> \o DedupBy(Tail(s))

\* The loop over the sorted locations, not deduplicated.
SurvivorsNoDedup(locs) == SortedByState(SortedByCountry(locs))

\* The locations the loop of get_weather iterates over.
Survivors(locs) == DedupBy(SortedByState(SortedByCountry(locs)))

\* The CityWeather get_weather pushes for a location and its weather.
CityWeather(loc, val) ==
    [weather |-> val[1], temperature |-> val[2], country |-> loc.country,
     city_name |-> loc.name, state |-> loc.state]

\* connect without the `?` on the probe's result.
ConnectResultUnchecked(r) == Ok("Connected")

\* Client<Offline>::connect, after the probe: the client, or the probe's
\* error under the context of connect.
ConnectResult(r) ==
    IF r.ok THEN Ok("Connected") ELSE Err(<<ConnectMsg>> \o r.err)

\* A loop that does not await the request it issued.
AwaitNothing(flying) == TRUE

\* The .await of get_weather's loop: the loop goes on once the request it
\* issued has completed.
AwaitDone(flying) == flying = {}

(* ------------------------------- state --------------------------------- *)

VARIABLES
    cityArg,    \* whether --city was given: one call, then the process ends
    pc,         \* where the program is: "start", "probing", "prompt",
                \* "geocoding", "loop", "returned" or "exited"
    client,     \* the client main holds: "Offline", "Moved" (inside connect),
                \* "Connected", or "None" (connect failed and dropped it)
    probeCity,  \* the city connect has probed the geocoder with, "" before
    probeErr,   \* the error of the probe's get_city_locations, << >> if none
    connectErr, \* the error connect returned, << >> if none
    city,       \* the city of the current get_weather call
    geoResp,    \* the geocoder's answer to the current call
    locations,  \* the locations the loop of get_weather iterates over
    next,       \* the position in locations of the next iteration
    requests,   \* the weather requests of the current call, in issue order
    inFlight,   \* the requests awaiting an answer: 0 is the geocoding
                \* request, i > 0 the i-th weather request
    weathers,   \* the Vec get_weather fills
    result,     \* what get_weather returned, read when pc = "returned"
    exitCode    \* the exit status of the process, -1 while it runs

vars == <<cityArg, pc, client, probeCity, probeErr, connectErr, city, geoResp, locations,
          next, requests, inFlight, weathers, result, exitCode>>

query == <<city, geoResp, locations, next, requests, weathers, result>>
startup == <<cityArg, client, probeCity, probeErr, connectErr>>

NoResult == Err(<< >>)

Init ==
    /\ cityArg \in BOOLEAN
    /\ pc = "start"
    /\ client = "Offline"
    /\ probeCity = ""
    /\ probeErr = << >>
    /\ connectErr = << >>
    /\ city = ""
    /\ geoResp = Pending
    /\ locations = << >>
    /\ next = 1
    /\ requests = << >>
    /\ inFlight = {}
    /\ weathers = << >>
    /\ result = NoResult
    /\ exitCode = -1

(* ------------------------------ actions -------------------------------- *)

\* main: Client::new(config).connect(), up to the probe's request.
Connect ==
    /\ pc = "start"
    /\ client = "Offline"
    /\ client' = "Moved"
    /\ probeCity' = "London"
    /\ inFlight' = {0}
    /\ pc' = "probing"
    /\ UNCHANGED <<cityArg, probeErr, connectErr, query, exitCode>>

\* connect, from the probe's answer on, and the `?` of main on its result.
ConnectDone ==
    /\ pc = "probing"
    /\ \E resp \in GeoResponses :
        LET r == GetCityLocations(resp)
            c == ConnectResult(r)
        IN  /\ probeErr' = r.err
            /\ connectErr' = c.err
            /\ client' = IF c.ok THEN c.val ELSE "None"
            /\ pc' = IF c.ok THEN "prompt" ELSE "exited"
            /\ exitCode' = IF c.ok THEN exitCode ELSE 1
    /\ inFlight' = {}
    /\ UNCHANGED <<cityArg, probeCity, query>>

\* The caller's loop reads a city and calls get_weather, which is a method
\* of Client<Connected> alone; get_weather up to the geocoding request.
GetWeather ==
    /\ pc = "prompt"
    /\ client = "Connected"
    /\ \E c \in Cities : city' = c
    /\ geoResp' = Pending
    /\ locations' = << >>
    /\ next' = 1
    /\ requests' = << >>
    /\ weathers' = << >>
    /\ result' = NoResult
    /\ inFlight' = {0}
    /\ pc' = "geocoding"
    /\ UNCHANGED <<startup, exitCode>>

\* get_weather from the geocoder's answer on: the `?` returns its error, or
\* the locations are sorted twice and deduplicated for the loop.
GeoDone ==
    /\ pc = "geocoding"
    /\ \E resp \in GeoResponses :
        LET r == GetCityLocations(resp)
        IN  /\ geoResp' = resp
            /\ IF r.ok
               THEN /\ locations' = Survivors(r.val)
                    /\ pc' = "loop"
                    /\ UNCHANGED result
               ELSE /\ result' = r
                    /\ pc' = "returned"
                    /\ UNCHANGED locations
    /\ inFlight' = {}
    /\ UNCHANGED <<startup, city, next, requests, weathers, exitCode>>

\* One iteration of the loop, up to the weather request.
SendWeather ==
    /\ pc = "loop"
    /\ next <= Len(locations)
    /\ AwaitDone(inFlight)
    /\ requests' = Append(requests,
           [lat |-> locations[next].lat, lon |-> locations[next].lon,
            resp |-> Pending])
    /\ inFlight' = inFlight \cup {next}
    /\ next' = next + 1
    /\ UNCHANGED <<pc, startup, city, geoResp, locations, weathers, result, exitCode>>

\* The rest of the iteration: get_city_weather's answer, and the push.
WeatherDone ==
    /\ pc = "loop"
    /\ \E i \in inFlight, resp \in WeatherResponses :
        LET v == GetCityWeather(resp)
        IN  /\ requests' = [requests EXCEPT ![i].resp = resp]
            /\ weathers' = IF v # None
                           THEN Append(weathers, CityWeather(locations[i], v[1]))
                           ELSE weathers
            /\ inFlight' = inFlight \ {i}
    /\ UNCHANGED <<pc, startup, city, geoResp, locations, next, result, exitCode>>

\* The end of the loop: Ok(weathers).
Return ==
    /\ pc = "loop"
    /\ next > Len(locations)
    /\ AwaitDone(inFlight)
    /\ result' = Ok(weathers)
    /\ pc' = "returned"
    /\ UNCHANGED <<startup, city, geoResp, locations, next, requests, inFlight,
                   weathers, exitCode>>

\* The caller's match on the result: a list is printed (an empty one is
\* not) and the loop goes on, an error is printed and the process exits.
HandleResult ==
    /\ pc = "returned"
    /\ ~cityArg
    /\ IF result.ok
       THEN pc' = "prompt" /\ UNCHANGED exitCode
       ELSE pc' = "exited" /\ exitCode' = 1
    /\ UNCHANGED <<startup, query, inFlight>>

\* main with --city: the `?` on print_city_weather's result, then Ok(()).
MainCityDone ==
    /\ pc = "returned"
    /\ cityArg
    /\ pc' = "exited"
    /\ exitCode' = IF result.ok THEN 0 ELSE 1
    /\ UNCHANGED <<startup, query, inFlight>>

Next ==
    \/ Connect
    \/ ConnectDone
    \/ GetWeather
    \/ GeoDone
    \/ SendWeather
    \/ WeatherDone
    \/ Return
    \/ HandleResult
    \/ MainCityDone

Spec == Init /\ [][Next]_vars

TypeOK ==
    /\ pc \in {"start", "probing", "prompt", "geocoding", "loop", "returned", "exited"}
    /\ client \in {"Offline", "Moved", "Connected", "None"}
    /\ next \in 1..(MaxLocs + 1)
    /\ inFlight \subseteq 0..MaxLocs
    /\ exitCode \in {-1, 0, 1}

(* ------------------------- notions of the claims ----------------------- *)

\* The locations of the geocoder's answer to the current call.
GeoLocs == geoResp.body.locations

\* The geocoder answered the current call with a list of locations.
GeoSucceeded ==
    /\ geoResp.kind = "http"
    /\ geoResp.status # UNAUTHORIZED
    /\ geoResp.body.shape = "locations"

\* The geocoding call failed: transport, 401 or a body that is no list.
GeoFailed ==
    \/ geoResp.kind = "transport"
    \/ geoResp.kind = "http" /\ geoResp.status = UNAUTHORIZED
    \/ geoResp.kind = "http" /\ geoResp.body.shape # "locations"

\* The (country, state) pairs of a list of locations.
RegionsOf(locs) == { <<locs[i].country, locs[i].state>> : i \in DOMAIN locs }

\* A weather fetch failed: transport, 401, 500 or a body that does not parse.
FetchFailed(resp) ==
    \/ resp.kind = "transport"
    \/ resp.kind = "http" /\ resp.status \in {UNAUTHORIZED, 500}
    \/ resp.kind = "http" /\ resp.body.shape # "weather"

\* A weather fetch succeeded: 200 and a weather body with a description.
FetchSucceeded(resp) ==
    /\ resp.kind = "http"
    /\ resp.status = 200
    /\ resp.body.shape = "weather"
    /\ resp.body.weather # << >>

\* The entry of the returned list that comes from the location at lat.
HasEntry(list, lat) == \E k \in DOMAIN list : list[k].city_name = lat

\* x comes strictly before y in the order of the requests and of the output:
\* state descending, None last, and country descending within a state.
RegionBefore(x, y) ==
    \/ OptLess(y.state, x.state)
    \/ x.state = y.state /\ StrLess(y.country, x.country)

(* -------------------------------- C1 ----------------------------------- *)

\* C1: a successful get_weather returns no two entries with the same
\* (country, state) pair, an absent state equal to an absent state only.
C1_NoDuplicateRegion ==
    (pc = "returned" /\ result.ok) =>
        \A i, j \in DOMAIN result.val :
            i < j => ~(/\ result.val[i].country = result.val[j].country
                       /\ result.val[i].state = result.val[j].state)

\* The geocoder answered A, B, A, every fetch gave an entry, two came back.
C1_Witness ==
    /\ pc = "returned" /\ result.ok
    /\ GeoSucceeded /\ Len(GeoLocs) = 3
    /\ SameRegion(GeoLocs[1], GeoLocs[3])
    /\ ~SameRegion(GeoLocs[1], GeoLocs[2])
    /\ GeoLocs[1].state = GeoLocs[2].state
    /\ Len(result.val) = 2

(* -------------------------------- C2 ----------------------------------- *)

\* C2: when geocoding succeeds and the fetch of one of several deduplicated
\* locations fails (transport, 401, 500, unparseable body), get_weather
\* returns Ok, the failing location is absent, every location whose fetch
\* succeeded is present, and all the fetches have been issued.
C2_FailedFetchSkipped ==
    (/\ pc = "returned"
     /\ GeoSucceeded
     /\ Cardinality(RegionsOf(GeoLocs)) >= 2
     /\ Cardinality({k \in DOMAIN requests : FetchFailed(requests[k].resp)}) = 1)
    => /\ result.ok
       /\ Len(requests) = Cardinality(RegionsOf(GeoLocs))
       /\ \A k \in DOMAIN requests :
            /\ FetchFailed(requests[k].resp) => ~HasEntry(result.val, requests[k].lat)
            /\ FetchSucceeded(requests[k].resp) => HasEntry(result.val, requests[k].lat)

(* -------------------------------- C3 ----------------------------------- *)

\* The error of a 401.
Unauthorized == <<InvalidKeyMsg>>

\* C3: a 401 of the geocoding endpoint makes get_weather return the
\* Unauthorized error, and every other failure of the geocoding call makes
\* it return an error that is not that one.
C3_UnauthorizedDistinct ==
    pc = "returned" =>
        /\ (geoResp.kind = "http" /\ geoResp.status = UNAUTHORIZED)
              => (~result.ok /\ result.err = Unauthorized)
        /\ (GeoFailed /\ ~(geoResp.kind = "http" /\ geoResp.status = UNAUTHORIZED))
              => (~result.ok /\ result.err # Unauthorized)

\* A 401 with a body that would have parsed as a list of locations.
C3_Witness ==
    /\ pc = "returned"
    /\ geoResp.kind = "http" /\ geoResp.status = UNAUTHORIZED
    /\ geoResp.body.shape = "locations"
    /\ result.err = Unauthorized

(* -------------------------------- C4 ----------------------------------- *)

\* C4: a successful geocoder answer with zero locations makes get_weather
\* return Ok of the empty list with no weather request issued; no failed
\* geocoding call returns that, and the caller's loop goes on after it
\* where it exits after a failure.
C4_EmptyIsOk ==
    /\ (pc = "returned" /\ GeoSucceeded /\ GeoLocs = << >>)
          => (result = Ok(<< >>) /\ requests = << >>)
    /\ (pc = "returned" /\ GeoFailed) => result # Ok(<< >>)
    /\ (pc = "exited" /\ ~cityArg /\ connectErr = << >>) => ~result.ok

\* The geocoder found nothing and the caller is back at its prompt.
C4_Witness ==
    /\ pc = "prompt"
    /\ GeoSucceeded /\ GeoLocs = << >>
    /\ result = Ok(<< >>)
    /\ requests = << >>

(* -------------------------------- C5 ----------------------------------- *)

\* get_weather runs on a Connected client whose London probe succeeded, a
\* failed probe leaves no client and the connection error around its cause.
C5_State ==
    /\ pc \in {"geocoding", "loop", "returned"}
          => (client = "Connected" /\ probeCity = "London" /\ probeErr = << >>)
    /\ client = "Connected" => (probeCity = "London" /\ probeErr = << >>)
    /\ probeErr # << >>
          => /\ client = "None"
             /\ connectErr = <<ConnectMsg>> \o probeErr
             /\ pc = "exited" /\ exitCode = 1
    /\ client \in {"Offline", "Moved"} => pc \in {"start", "probing"}

\* A call starts on a Connected client only, and a Connected client stays one.
C5_Step ==
    /\ (pc # "geocoding" /\ pc' = "geocoding") => client = "Connected"
    /\ client = "Connected" => client' = "Connected"

\* C5: the lifecycle is Offline -> Connected: every get_weather call comes
\* after a connect whose probe for "London" succeeded, a failed probe makes
\* connect return the connection error wrapping the cause and no Connected
\* client, and a Connected client never goes back.
C5_Lifecycle == [](C5_State) /\ [][C5_Step]_vars

\* A call on the connected client.
C5_Witness ==
    /\ pc = "geocoding"
    /\ client = "Connected" /\ probeCity = "London"
    /\ city = "Springfield"
    /\ geoResp = Pending

(* -------------------------------- C6 ----------------------------------- *)

\* The location the k-th weather request asks about: lat is its position
\* in the geocoder's answer.
ReqLoc(k) == GeoLocs[requests[k].lat]

\* One weather request for each (country, state) pair of the answer.
OneRequestPerRegion ==
    /\ Len(requests) = Cardinality(RegionsOf(GeoLocs))
    /\ \A r \in RegionsOf(GeoLocs) :
          Cardinality({k \in DOMAIN requests :
                          <<ReqLoc(k).country, ReqLoc(k).state>> = r}) = 1

\* The scenarios of the claim.
TwoLondons ==
    /\ Len(GeoLocs) = 2
    /\ \A i \in 1..2 : GeoLocs[i].country = GB /\ GeoLocs[i].state = None

TwoSpringfields ==
    /\ Len(GeoLocs) = 2
    /\ GeoLocs[1].country = US /\ GeoLocs[1].state = Some(IL)
    /\ GeoLocs[2].country = US /\ GeoLocs[2].state = Some(MO)

AllFetchesSucceeded == \A k \in DOMAIN requests : FetchSucceeded(requests[k].resp)

\* C6 as stated: one weather request per distinct (country, state) pair;
\* two (GB, None) entries give one fetch and an output of length 1; (US, IL)
\* and (US, MO) give two fetches and, when both succeed, an output of length 2.
C6_Original ==
    (pc = "returned" /\ GeoSucceeded) =>
        /\ OneRequestPerRegion
        /\ TwoLondons => (Len(requests) = 1 /\ Len(result.val) = 1)
        /\ TwoSpringfields =>
              /\ Len(requests) = 2
              /\ AllFetchesSucceeded => Len(result.val) = 2

\* C6 as amended: the output of the two (GB, None) entries has length 1
\* when their one fetch succeeds.
C6_OneFetchPerRegion ==
    (pc = "returned" /\ GeoSucceeded) =>
        /\ OneRequestPerRegion
        /\ TwoLondons =>
              /\ Len(requests) = 1
              /\ AllFetchesSucceeded => Len(result.val) = 1
        /\ TwoSpringfields =>
              /\ Len(requests) = 2
              /\ AllFetchesSucceeded => Len(result.val) = 2

\* The two (GB, None) entries, their one fetch, and its entry.
C6_Witness ==
    /\ pc = "returned"
    /\ GeoSucceeded /\ TwoLondons
    /\ Len(requests) = 1 /\ AllFetchesSucceeded
    /\ Len(result.val) = 1

(* -------------------------------- C7 ----------------------------------- *)

\* C7: when the geocoding call fails (transport, 401, a body that is no list
\* of locations), get_weather returns an error and no weather request of the
\* call is issued.
C7_GeoFailurePropagates ==
    GeoFailed =>
        /\ requests = << >> /\ weathers = << >> /\ locations = << >>
        /\ pc \in {"returned", "exited"}
        /\ ~result.ok /\ result.err # << >>

\* A 200 whose body is no list of locations.
C7_Witness ==
    /\ pc = "returned"
    /\ geoResp = Http(200, OtherBody)
    /\ result = Err(<<ParseMsg, DecodeMsg>>)
    /\ requests = << >>

(* -------------------------------- C8 ----------------------------------- *)

\* C8: the requests of a call are sequential: at most one is in flight, no
\* weather request exists while the geocoding request is in flight, and
\* only the latest weather request can be awaiting its answer.
C8_Sequential ==
    /\ Cardinality(inFlight) <= 1
    /\ 0 \in inFlight => requests = << >>
    /\ \A k \in DOMAIN requests :
          /\ requests[k].resp = Pending => k = Len(requests)
          /\ requests[k].resp = Pending <=> k \in inFlight

\* The second weather request in flight, the first one answered.
C8_Witness ==
    /\ pc = "loop"
    /\ Len(requests) = 2
    /\ inFlight = {2}
    /\ requests[1].resp # Pending /\ requests[2].resp = Pending

(* -------------------------------- C9 ----------------------------------- *)

\* C9: the location queried for a (country, state) pair, whose name becomes
\* city_name, is the first of the geocoder's answer with that pair.
C9_FirstIsRepresentative ==
    GeoSucceeded =>
        /\ \A k \in DOMAIN requests :
              /\ requests[k].lon = ReqLoc(k).lon
              /\ \A j \in 1..(requests[k].lat - 1) : ~SameRegion(GeoLocs[j], ReqLoc(k))
        /\ \A e \in DOMAIN weathers :
              \E i \in DOMAIN GeoLocs :
                 /\ weathers[e].city_name = GeoLocs[i].name
                 /\ SameRegion(weathers[e], GeoLocs[i])
                 /\ \A j \in 1..(i - 1) : ~SameRegion(GeoLocs[j], GeoLocs[i])

\* The second and the third location share a pair: the second is returned.
C9_Witness ==
    /\ pc = "returned" /\ result.ok
    /\ GeoSucceeded /\ Len(GeoLocs) = 3
    /\ SameRegion(GeoLocs[2], GeoLocs[3])
    /\ ~SameRegion(GeoLocs[1], GeoLocs[2])
    /\ \E e \in DOMAIN result.val : result.val[e].city_name = GeoLocs[2].name

(* -------------------------------- C10 ---------------------------------- *)

====
